---- MODULE Spec2Model ----
(***************************************************************************)
(* Model of apple_store_pickup_bot.py: the background_checker thread, the  *)
(* Flask handlers index / delete_product / toggle_product, the durable     *)
(* products.json file they share, and the in-memory latest_status cache.   *)
(***************************************************************************)
EXTENDS Naturals, Sequences, FiniteSets, TLC

(* ------------------------------ bounds -------------------------------- *)

\* most items the products file holds (index POST is not taken beyond it)
MaxItems == 2
\* most stores in one provider response
MaxStores == 2

\* values of the form fields of index POST
Models == {"m1", "m2"}
Names == {"n1"}
Links == {"l1"}
Pincodes == {"p1"}
\* request-handling threads of the Flask server (threaded by default)
Handlers == {"h1", "h2"}
\* store labels in provider responses
StoreNames == {"s1"}
\* store labels in the responses given to the polling loop run on its own
LoopStoreNames == {"s1", "s2"}
\* how the Telegram request of send_telegram_message ends: requests.post
\* returns, or raises (transport error, timeout)
PostOutcomes == {"ok", "failed"}

(* --------------------------- the products file ------------------------ *)

\* a product dict as index() builds it (line 166)
Products == [name : Names, model : Models, link : Links, pincode : Pincodes,
             enabled : BOOLEAN]

\* json.dump of one product dict: every value becomes its JSON text
EncodeItem(p) ==
    [name |-> p.name, model |-> p.model, link |-> p.link,
     pincode |-> p.pincode,
     enabled |-> IF p.enabled THEN "true" ELSE "false"]

\* json.load of one object: the JSON literal true/false becomes a bool
DecodeItem(e) ==
    [name |-> e.name, model |-> e.model, link |-> e.link,
     pincode |-> e.pincode, enabled |-> (e.enabled = "true")]

\* json.dump(products, f, indent=2): the text of the file, one entry per dict
JsonDump(products) == [i \in 1..Len(products) |-> EncodeItem(products[i])]

\* json.load(f) of a complete text
JsonLoad(text) == [i \in 1..Len(text) |-> DecodeItem(text[i])]

\* bytes json.dump writes for one dict; "_" stands for a newline
ItemBytes(e) ==
    Len("  {_    \"name\": \"\",_    \"model\": \"\",_    \"link\": \"\",_")
    + Len("    \"pincode\": \"\",_    \"enabled\": _  }")
    + Len(e.name) + Len(e.model) + Len(e.link) + Len(e.pincode)
    + Len(e.enabled)

RECURSIVE SumBytes(_)
SumBytes(text) ==
    IF text = <<>> THEN 0
    ELSE ItemBytes(Head(text)) + Len(",_") + SumBytes(Tail(text))

\* length in bytes of the text json.dump writes
TextBytes(text) ==
    IF text = <<>> THEN Len("[]")
    ELSE Len("[_") + (SumBytes(text) - Len(",_")) + Len("_]")

\* products.json before it was ever written
NoFile == [state |-> "absent", text |-> <<>>, size |-> 0]

\* open(PRODUCTS_FILE, "w"): the file exists and is empty
Truncated == [state |-> "bad", text |-> <<>>, size |-> 0]

\* the file after a writer that opened it earlier writes `text` at offset 0
\* and closes: bytes an overlapping writer left beyond the end stay behind
\* and make the content unparseable
Overwrite(f, text) ==
    IF TextBytes(text) >= f.size
    THEN [state |-> "ok", text |-> text, size |-> TextBytes(text)]
    ELSE [state |-> "bad", text |-> <<>>, size |-> f.size]

\* load_products raises (json.load on an empty or damaged file)
LoadRaises(f) == f.state = "bad"

\* load_products: [] when the file does not exist, else json.load
LoadProducts(f) == IF f.state = "absent" THEN <<>> ELSE JsonLoad(f.text)

(* ------------------------- the provider response ---------------------- *)

\* None, for a key that is missing or null
NoneVal == "<None>"

\* raw pickupDisplay / pickupType values of a partsAvailability entry
RawDisplays == {"available", "Unavailable", "ineligible", NoneVal}

\* one partsAvailability entry
Infos == [pickupDisplay : RawDisplays, pickupType : {NoneVal}]
         \cup [pickupDisplay : {NoneVal}, pickupType : {"available"}]

\* one element of stores: a dict (with its partsAvailability entries, none
\* when the key is missing) or a value that is no dict
StoreValsOver(names) ==
    [kind : {"notdict"}, name : names, parts : {<<>>}]
    \cup [kind : {"dict"}, name : names,
          parts : {<<>>} \cup {<<i>> : i \in Infos}]

StoreVals == StoreValsOver(StoreNames)

SeqsUpTo(S, n) == UNION {[1..k -> S] : k \in 0..n}

\* what fetch_availability returns: a body without the path to stores, a
\* body whose stores is null, or a body with a list of stores
ResponsesOver(names) ==
    [kind : {"nopath", "nullstores"}, stores : {<<>>}]
    \cup [kind : {"list"}, stores : SeqsUpTo(StoreValsOver(names), MaxStores)]

Responses == ResponsesOver(StoreNames)

\* fetch_availability: a response, or an exception (transport, HTTP status,
\* resp.json())
FetchedOver(names) ==
    [raised : {TRUE}, data : {[kind |-> "nopath", stores |-> <<>>]}]
    \cup [raised : {FALSE}, data : ResponsesOver(names)]

Fetched == FetchedOver(StoreNames)

\* str.lower of a display text
Lower(s) == IF s = "Unavailable" THEN "unavailable" ELSE s

\* info.get("pickupDisplay") or info.get("pickupType"), lower-cased when a str
RowDisplay(info) ==
    LET pd == IF info.pickupDisplay # NoneVal THEN info.pickupDisplay
              ELSE info.pickupType
    IN  IF pd = NoneVal THEN NoneVal ELSE Lower(pd)

\* the rows of one store dict, in partsAvailability order
StoreRows(store) ==
    [i \in 1..Len(store.parts) |->
        [store |-> store.name, pickupDisplay |-> RowDisplay(store.parts[i])]]

RECURSIVE AllRows(_)
AllRows(stores) ==
    IF stores = <<>> THEN <<>>
    ELSE StoreRows(Head(stores)) \o AllRows(Tail(stores))

\* parse_pickup_status: the rows, or an exception out of the loop over stores
ParsePickupStatus(data) ==
    IF data.kind = "nopath" THEN [raised |-> FALSE, rows |-> <<>>]
    ELSE IF data.kind = "nullstores" THEN [raised |-> TRUE, rows |-> <<>>]
    ELSE IF \E i \in 1..Len(data.stores) : data.stores[i].kind = "notdict"
         THEN [raised |-> TRUE, rows |-> <<>>]
         ELSE [raised |-> FALSE, rows |-> AllRows(data.stores)]

(* --------------------- one product of the polling loop ---------------- *)

ErrorOutcome ==
    [kind |-> "error", status |-> "error", message |-> "exception", sent |-> 0]

\* send_telegram_message without its try block: an exception of
\* requests.post reaches the caller
SendTelegramUnguarded(posted) == [raised |-> posted # "ok", calls |-> 1]

\* send_telegram_message (lines 64-71; TELEGRAM_TOKEN and CHAT_ID are set):
\* one requests.post, whose exception is logged and not raised again
SendTelegramMessage(posted) == [raised |-> FALSE, calls |-> 1]

\* RowLoop without the break of line 140: the rows after an available row
\* are gone through as well
RECURSIVE RowLoopOn(_, _, _, _, _)
RowLoopOn(rows, status, message, sent, posted) ==
    IF rows = <<>>
    THEN [kind |-> "ok", status |-> status, message |-> message, sent |-> sent]
    ELSE LET r == Head(rows)
         IN  IF r.pickupDisplay = NoneVal THEN [ErrorOutcome EXCEPT !.sent = sent]
             ELSE IF r.pickupDisplay = "available"
                  THEN LET tg == SendTelegramMessage(posted)
                       IN  IF tg.raised
                           THEN [ErrorOutcome EXCEPT !.sent = sent + tg.calls]
                           ELSE RowLoopOn(Tail(rows), r.pickupDisplay, r.store,
                                          sent + tg.calls, posted)
                  ELSE RowLoopOn(Tail(rows), r.pickupDisplay, r.store, sent,
                                 posted)

\* the loop over rows (lines 131-140), from product_status / product_msg as
\* they stand: a row whose pickupDisplay is no str raises at .upper(); the
\* first available row sends the message and breaks
RECURSIVE RowLoop(_, _, _, _, _)
RowLoop(rows, status, message, sent, posted) ==
    IF rows = <<>>
    THEN [kind |-> "ok", status |-> status, message |-> message, sent |-> sent]
    ELSE LET r == Head(rows)
         IN  IF r.pickupDisplay = NoneVal THEN [ErrorOutcome EXCEPT !.sent = sent]
             ELSE IF r.pickupDisplay = "available"
                  THEN LET tg == SendTelegramMessage(posted)
                       IN  IF tg.raised
                           THEN [ErrorOutcome EXCEPT !.sent = sent + tg.calls]
                           ELSE [kind |-> "ok", status |-> r.pickupDisplay,
                                 message |-> r.store, sent |-> sent + tg.calls]
                  ELSE RowLoop(Tail(rows), r.pickupDisplay, r.store, sent,
                               posted)

\* the try block of background_checker for an enabled product (lines 123-146)
CheckEnabled(fetched, posted) ==
    IF fetched.raised THEN ErrorOutcome
    ELSE LET parsed == ParsePickupStatus(fetched.data)
         IN  IF parsed.raised THEN ErrorOutcome
             ELSE RowLoop(parsed.rows, "unavailable", "No nearby stores found",
                          0, posted)

\* CheckProduct without the test of the enabled flag
CheckProductAlways(product, fetched, posted) == CheckEnabled(fetched, posted)

\* the body of the for loop for one product (lines 118-146)
CheckProduct(product, fetched, posted) ==
    IF ~product.enabled
    THEN [kind |-> "disabled", status |-> "disabled",
          message |-> "Disabled by user", sent |-> 0]
    ELSE CheckEnabled(fetched, posted)

(* ------------------------------- state -------------------------------- *)

VARIABLES
    file,           \* products.json: state absent / ok / bad, text, size
    latest_status,  \* the in-memory dict model -> {status, message}
    chk,            \* background_checker: pc, products (its snapshot), idx
    hnd,            \* per handler thread: pc, op, form values, products
    log,            \* history: what the current pass did, one entry per
                    \* product done (kind, number of Telegram posts)
    afterAE,        \* history: the models whose last two recorded statuses
                    \* are available, then error
    batch           \* history of the last two requests that write the
                    \* store: the store before them, the requests, whether
                    \* the second began after the first ended, the store
                    \* after the first write, whether one was answered 500

vars == <<file, latest_status, chk, hnd, log, afterAE, batch>>

IdleHandler ==
    [pc |-> "idle", op |-> "none", model |-> "m1", products |-> <<>>,
     fresh |-> FALSE]

NoBatch ==
    [base |-> NoFile, ops |-> <<>>, serial |-> TRUE, after1 |-> NoFile,
     failed |-> FALSE]

\* latest_status = {} (line 33)
NoStatus == [k \in {} |-> [status |-> "", message |-> ""]]

\* module load and the start of the thread (lines 33, 281), with the
\* products file as it was left
Boot(f) ==
    /\ file = f
    /\ latest_status = NoStatus
    /\ chk = [pc |-> "load", products |-> <<>>, idx |-> 1]
    /\ hnd = [h \in Handlers |-> IdleHandler]
    /\ log = <<>>
    /\ afterAE = {}
    /\ batch = NoBatch

Init == Boot(NoFile)

\* latest_status[key] = value
StatusPut(ls, key, value) ==
    [k \in (DOMAIN ls) \cup {key} |-> IF k = key THEN value ELSE ls[k]]

\* latest_status.get(model, {}).get('status', 'checking') of the template
ShownStatus(ls, model) ==
    IF model \in DOMAIN ls THEN ls[model].status ELSE "checking"

(* -------------------------- background_checker ------------------------ *)

\* line 116: products = load_products(); an exception here is caught by
\* nothing and ends the thread; an empty list restarts the while loop
ChkLoad ==
    /\ chk.pc = "load"
    /\ IF LoadRaises(file)
       THEN chk' = [pc |-> "dead", products |-> <<>>, idx |-> 1]
       ELSE LET products == LoadProducts(file)
            IN  chk' = [pc |-> IF products = <<>> THEN "load" ELSE "item",
                        products |-> products, idx |-> 1]
    /\ log' = <<>>
    /\ UNCHANGED <<file, latest_status, hnd, afterAE, batch>>

\* the position after product idx: the next product, or the next pass
ChkAdvance(c) ==
    IF c.idx < Len(c.products)
    THEN [c EXCEPT !.idx = c.idx + 1]
    ELSE [c EXCEPT !.pc = "load"]

\* ChkItemOut with the try block around the for loop instead of inside it:
\* an exception ends the pass
ChkItemOutAbort(out) ==
    /\ chk.pc = "item"
    /\ LET model == chk.products[chk.idx].model
       IN  /\ latest_status' =
                StatusPut(latest_status, model,
                          [status |-> out.status, message |-> out.message])
           /\ afterAE' =
                IF out.status = "error"
                   /\ ShownStatus(latest_status, model) = "available"
                THEN afterAE \cup {model}
                ELSE afterAE \ {model}
    /\ log' = Append(log, [kind |-> out.kind, sent |-> out.sent])
    /\ chk' = IF out.kind = "error" THEN [chk EXCEPT !.pc = "load"]
              ELSE ChkAdvance(chk)
    /\ UNCHANGED <<file, hnd, batch>>

\* ChkItemOut with a loop that saves its snapshot after it has recorded the
\* status: save_products(products)
ChkItemOutSaving(out) ==
    /\ chk.pc = "item"
    /\ LET model == chk.products[chk.idx].model
       IN  /\ latest_status' =
                StatusPut(latest_status, model,
                          [status |-> out.status, message |-> out.message])
           /\ afterAE' =
                IF out.status = "error"
                   /\ ShownStatus(latest_status, model) = "available"
                THEN afterAE \cup {model}
                ELSE afterAE \ {model}
    /\ log' = Append(log, [kind |-> out.kind, sent |-> out.sent])
    /\ chk' = ChkAdvance(chk)
    /\ file' = Overwrite(Truncated, JsonDump(chk.products))
    /\ UNCHANGED <<hnd, batch>>

\* lines 117-146 for the product at idx, with the outcome of its body
ChkItemOut(out) ==
    /\ chk.pc = "item"
    /\ LET model == chk.products[chk.idx].model
       IN  /\ latest_status' =
                StatusPut(latest_status, model,
                          [status |-> out.status, message |-> out.message])
           /\ afterAE' =
                IF out.status = "error"
                   /\ ShownStatus(latest_status, model) = "available"
                THEN afterAE \cup {model}
                ELSE afterAE \ {model}
    /\ log' = Append(log, [kind |-> out.kind, sent |-> out.sent])
    /\ chk' = ChkAdvance(chk)
    /\ UNCHANGED <<file, hnd, batch>>

\* the same, with what the provider answers and whether the Telegram post
\* goes through (send_telegram_message swallows its exception, lines 68-71)
ChkItemWith(fetched, posted) ==
    /\ chk.pc = "item"
    /\ ChkItemOut(CheckProduct(chk.products[chk.idx], fetched, posted))

\* the outcomes of the loop body for a product, over every answer of the
\* provider and every end of the Telegram request
OutcomesOf ==
    {<<p, CheckProduct(p, f, posted)>> :
        p \in Products, f \in Fetched, posted \in PostOutcomes}

\* one product of the pass, for every answer of the provider and notifier
ChkItem ==
    /\ chk.pc = "item"
    /\ \E po \in OutcomesOf :
          /\ po[1] = chk.products[chk.idx]
          /\ ChkItemOut(po[2])

(* ------------------------------ the handlers -------------------------- *)

Mutators == {"add", "delete", "toggle"}

\* the first statement of index, delete_product and toggle_product:
\* products = load_products() (lines 158, 261, 269); an exception becomes
\* the 500 response
Load(h, op, model) ==
    /\ hnd[h].pc = "idle"
    /\ op = "add" => Len(LoadProducts(file)) < MaxItems
    /\ hnd' = [hnd EXCEPT ![h] =
                 IF LoadRaises(file)
                 THEN [IdleHandler EXCEPT !.pc = "failed"]
                 ELSE [pc |-> "loaded", op |-> op, model |-> model,
                       products |-> LoadProducts(file), fresh |-> FALSE]]
    /\ UNCHANGED <<file, latest_status, chk, log, afterAE>>

\* a request of the control surface: index GET ("view"), index POST
\* ("add"), delete_product, toggle_product
Request(h, op, model) ==
    /\ Load(h, op, model)
    /\ UNCHANGED batch

\* the 500 response of a request whose load raised
Fail500(h) ==
    /\ hnd[h].pc = "failed"
    /\ hnd' = [hnd EXCEPT ![h] = IdleHandler]
    /\ UNCHANGED <<file, latest_status, chk, log, afterAE>>

Respond500(h) ==
    /\ Fail500(h)
    /\ UNCHANGED batch

\* index GET: render_template_string(template, products, latest_status)
Render(h) ==
    /\ hnd[h].pc = "loaded"
    /\ hnd[h].op = "view"
    /\ hnd' = [hnd EXCEPT ![h] = IdleHandler]
    /\ UNCHANGED <<file, latest_status, chk, log, afterAE, batch>>

\* index POST, lines 162-166: products.append({... "enabled": True})
AddOp(products, model) ==
    Append(products,
           [name |-> CHOOSE n \in Names : TRUE, model |-> model,
            link |-> CHOOSE l \in Links : TRUE,
            pincode |-> CHOOSE c \in Pincodes : TRUE, enabled |-> TRUE])

RECURSIVE DeleteFirst(_, _)
\* DeleteOp as list.remove would do it: only the first dict of that model
DeleteFirst(products, model) ==
    IF products = <<>> THEN <<>>
    ELSE IF Head(products).model = model THEN Tail(products)
         ELSE <<Head(products)>> \o DeleteFirst(Tail(products), model)

\* delete_product, line 262: [p for p in products if p["model"] != model]
DeleteOp(products, model) ==
    SelectSeq(products, LAMBDA p : p.model # model)

\* toggle_product, lines 270-272: every dict of that model is flipped
ToggleOp(products, model) ==
    [i \in 1..Len(products) |->
        IF products[i].model = model
        THEN [products[i] EXCEPT !.enabled = ~products[i].enabled]
        ELSE products[i]]

\* the list a request passes to save_products
Edited(op, products, model) ==
    IF op = "add" THEN AddOp(products, model)
    ELSE IF op = "delete" THEN DeleteOp(products, model)
    ELSE ToggleOp(products, model)

\* save_products, line 60: open(PRODUCTS_FILE, "w") truncates the file
\* (fresh: the file still held what this request loaded)
SaveOpen(h) ==
    /\ hnd[h].pc = "loaded"
    /\ hnd[h].op \in Mutators
    /\ hnd' = [hnd EXCEPT ![h].pc = "opened",
                          ![h].fresh = (~LoadRaises(file)
                                        /\ LoadProducts(file) = hnd[h].products)]
    /\ file' = Truncated
    /\ UNCHANGED <<latest_status, chk, log, afterAE, batch>>

\* Write with a handler that also forgets the status of the model of the
\* request
WriteDropStatus(h) ==
    /\ hnd[h].pc = "opened"
    /\ file' = Overwrite(file, JsonDump(Edited(hnd[h].op, hnd[h].products,
                                                hnd[h].model)))
    /\ hnd' = [hnd EXCEPT ![h] = IdleHandler]
    /\ latest_status' =
         [k \in (DOMAIN latest_status) \ {hnd[h].model} |-> latest_status[k]]
    /\ UNCHANGED <<chk, log, afterAE>>

\* save_products, line 61 and the end of the with block: json.dump, flush
\* and close; then the redirect
Write(h) ==
    /\ hnd[h].pc = "opened"
    /\ file' = Overwrite(file, JsonDump(Edited(hnd[h].op, hnd[h].products,
                                                hnd[h].model)))
    /\ hnd' = [hnd EXCEPT ![h] = IdleHandler]
    /\ UNCHANGED <<latest_status, chk, log, afterAE>>

SaveWrite(h) ==
    /\ Write(h)
    /\ UNCHANGED batch

\* the process is stopped and started again: memory is gone, the file stays
Restart ==
    /\ latest_status' = NoStatus
    /\ chk' = [pc |-> "load", products |-> <<>>, idx |-> 1]
    /\ hnd' = [h \in Handlers |-> IdleHandler]
    /\ log' = <<>>
    /\ afterAE' = {}
    /\ batch' = NoBatch
    /\ UNCHANGED file

(* ------------- the polling loop beside one handler thread ------------- *)

\* the handler thread that runs beside the polling loop
LoopHandlers == {"h1"}

Next ==
    \/ ChkLoad
    \/ ChkItem
    \/ \E h \in LoopHandlers, op \in Mutators, model \in Models :
            Request(h, op, model)
    \/ \E h \in LoopHandlers : Request(h, "view", IdleHandler.model)
    \/ \E h \in LoopHandlers : Respond500(h)
    \/ \E h \in LoopHandlers : Render(h)
    \/ \E h \in LoopHandlers : SaveOpen(h)
    \/ \E h \in LoopHandlers : SaveWrite(h)
    \/ Restart

Spec == Init /\ [][Next]_vars

(* ---------------- two handler threads, two requests at a time --------- *)

\* a request that writes the store is between its load and its response
InFlight(h) == hnd[h].pc \in {"loaded", "opened", "failed"}

Quiet == \A h \in Handlers : ~InFlight(h)

\* the history of a pair of requests: a first request starts a pair, the
\* next one (beside it, or after it) completes the pair
PairRequest(h, op, model) ==
    /\ op \in Mutators
    /\ ~Quiet => Len(batch.ops) < 2
    /\ Load(h, op, model)
    /\ batch' =
         IF Quiet /\ Len(batch.ops) # 1
         THEN [NoBatch EXCEPT !.base = file,
                              !.ops = <<[op |-> op, model |-> model]>>]
         ELSE [batch EXCEPT !.ops = Append(@, [op |-> op, model |-> model]),
                            !.serial = Quiet]

PairRespond500(h) ==
    /\ Fail500(h)
    /\ batch' = [batch EXCEPT !.failed = TRUE]

PairSaveOpen(h) == SaveOpen(h)

PairSaveWrite(h) ==
    /\ Write(h)
    /\ batch' = IF batch.after1 = NoFile
                THEN [batch EXCEPT !.after1 = file']
                ELSE batch

NextWeb ==
    \/ \E h \in Handlers, op \in Mutators, model \in Models :
            PairRequest(h, op, model)
    \/ \E h \in Handlers : PairRespond500(h)
    \/ \E h \in Handlers : PairSaveOpen(h)
    \/ \E h \in Handlers : PairSaveWrite(h)

SpecWeb == Init /\ [][NextWeb]_vars

(* ---------------- the polling loop on a store nobody edits ------------ *)

\* the lists the requests of the control surface can leave in the store
StoredLists == SeqsUpTo(Products, MaxItems)

\* products.json as save_products leaves it for a list
StoredFile(products) ==
    [state |-> "ok", text |-> JsonDump(products),
     size |-> TextBytes(JsonDump(products))]

\* the process starts on a store written earlier, or on none
InitLoop == \E f \in {NoFile} \cup {StoredFile(l) : l \in StoredLists} : Boot(f)

\* what fetch_availability returns to the loop run on its own
LoopFetched == FetchedOver(LoopStoreNames)

\* the store labels of the available rows, in the order of the rows
AvailStores(rows) ==
    LET avail == SelectSeq(rows, LAMBDA r : r.pickupDisplay = "available")
    IN  [i \in 1..Len(avail) |-> avail[i].store]

\* the history entry of a product the loop has done: kind and Telegram
\* posts as in ChkItemOut, how the Telegram request ended, how
\* parse_pickup_status ended, and the available rows it returned
LoopEntry(product, fetched, posted) ==
    LET out == CheckProduct(product, fetched, posted)
        parsed == ParsePickupStatus(fetched.data)
        called == product.enabled /\ ~fetched.raised
    IN  [kind |-> out.kind, sent |-> out.sent,
         post |-> IF out.sent > 0 THEN posted ELSE "none",
         parse |-> IF ~called THEN "none"
                   ELSE IF parsed.raised THEN "raised" ELSE "rows",
         avail |-> IF called /\ ~parsed.raised THEN AvailStores(parsed.rows)
                   ELSE <<>>]

\* lines 117-146 for the product at idx, with the outcome of its body and
\* the history entry of it
LoopItemOut(out, entry) ==
    /\ chk.pc = "item"
    /\ latest_status' =
         StatusPut(latest_status, chk.products[chk.idx].model,
                   [status |-> out.status, message |-> out.message])
    /\ log' = Append(log, entry)
    /\ chk' = ChkAdvance(chk)
    /\ UNCHANGED <<file, hnd, afterAE, batch>>

\* the outcomes of the loop body for a product, with their history
\* entries, over every answer of the provider and every end of the
\* Telegram request
LoopOutcomes ==
    {<<p, CheckProduct(p, f, posted), LoopEntry(p, f, posted)>> :
        p \in Products, f \in LoopFetched, posted \in PostOutcomes}

\* one product of the pass, for every answer of the provider and notifier
LoopItem ==
    /\ chk.pc = "item"
    /\ \E o \in LoopOutcomes :
          /\ o[1] = chk.products[chk.idx]
          /\ LoopItemOut(o[2], o[3])

NextLoop ==
    \/ ChkLoad
    \/ LoopItem

SpecLoop == InitLoop /\ [][NextLoop]_vars

(* ------------- delete_product while a pass is in progress ------------- *)

\* delete_product called while the polling loop is going over its snapshot
DeleteInPass(h, model) ==
    /\ chk.pc = "item"
    /\ Request(h, "delete", model)

NextDelete ==
    \/ ChkLoad
    \/ ChkItem
    \/ \E h \in LoopHandlers, model \in Models : DeleteInPass(h, model)
    \/ \E h \in LoopHandlers : SaveOpen(h)
    \/ \E h \in LoopHandlers : SaveWrite(h)

SpecDelete == InitLoop /\ [][NextDelete]_vars

(* ------------------------------- claims ------------------------------- *)

\* the model of the product the polling loop is at
CurModel == chk.products[chk.idx].model

\* the snapshot holds exactly one product of that model
OnceInSnapshot(model) ==
    Cardinality({i \in 1..Len(chk.products) : chk.products[i].model = model}) = 1

\* the number of Telegram posts of the step just taken
PostsOfStep == log'[Len(log')].sent

\* C1: edge-triggered notification. In every step of the polling loop on an
\* item (the only one of its model in the snapshot), the notifier is called
\* iff the status observed in the step is available and the status recorded
\* before for the item was not available.
C1_EdgeTriggered ==
    [][(ChkItem /\ OnceInSnapshot(CurModel))
         => ((PostsOfStep = 1)
               <=> (/\ latest_status'[CurModel].status = "available"
                    /\ ShownStatus(latest_status, CurModel) # "available"))]_vars

\* C2: an error does not reset the edge. When the statuses recorded for an
\* item in the two passes before were available, then error, an available
\* observation in this pass calls the notifier no further time.
C2_ErrorKeepsEdge ==
    [][(/\ ChkItem
        /\ OnceInSnapshot(CurModel)
        /\ CurModel \in afterAE
        /\ latest_status'[CurModel].status = "available")
         => PostsOfStep = 0]_vars

\* the products of the snapshot the pass has done
Done == 1..Len(log)

\* no later product done in this pass has the model of product j
LastOfModel(j) ==
    \A k \in Done : k > j => chk.products[k].model # chk.products[j].model

\* C3: per-item failure isolation. A pass is never cut short: while it runs
\* it has done every product before idx, and when it ends it has done the
\* whole snapshot; every enabled product done was probed (with or without
\* failure); a product whose probe failed has status error, and every other
\* product done has a status of its own from this pass; the thread never
\* ends in the middle of a pass.
C3_FailureIsolation ==
    /\ chk.pc = "item" => Len(log) = chk.idx - 1
    /\ chk.pc = "load" => Len(log) = Len(chk.products)
    /\ chk.pc = "dead" => log = <<>>
    /\ \A j \in Done :
          /\ chk.products[j].enabled => log[j].kind \in {"ok", "error"}
          /\ chk.products[j].model \in DOMAIN latest_status
          /\ LastOfModel(j) =>
                (log[j].kind = "error"
                   <=> latest_status[chk.products[j].model].status = "error")

\* a pass over two products of different models has ended; the probe of the
\* first failed and the second was still probed, without failure
C3_Witness ==
    /\ chk.pc = "load"
    /\ Len(log) = 2
    /\ chk.products[1].model # chk.products[2].model
    /\ log[1].kind = "error"
    /\ log[2].kind = "ok"
    /\ latest_status[chk.products[1].model].status = "error"
    /\ latest_status[chk.products[2].model].status = "unavailable"

\* C4: disabled items. A pass takes as its snapshot the store as the last
\* completed toggle left it; a product whose enabled flag is false in the
\* snapshot gets status disabled, with no provider call and no notification,
\* and a product whose flag is true (again) is probed; a toggle writes the
\* flipped flag of every product of its model.
C4_DisabledItems ==
    /\ [](\A j \in Done :
            /\ ~chk.products[j].enabled =>
                  /\ log[j] = [kind |-> "disabled", sent |-> 0]
                  /\ LastOfModel(j) =>
                       latest_status[chk.products[j].model].status = "disabled"
            /\ chk.products[j].enabled => log[j].kind \in {"ok", "error"})
    /\ [][/\ (ChkLoad /\ ~LoadRaises(file))
               => chk'.products = LoadProducts(file)
          /\ \A h \in Handlers :
               (SaveWrite(h) /\ hnd[h].op = "toggle" /\ ~LoadRaises(file'))
                 => /\ Len(LoadProducts(file')) = Len(hnd[h].products)
                    /\ \A i \in 1..Len(hnd[h].products) :
                         LoadProducts(file')[i].enabled =
                           IF hnd[h].products[i].model = hnd[h].model
                           THEN ~hnd[h].products[i].enabled
                           ELSE hnd[h].products[i].enabled]_vars

\* a pass has gone over a product that a toggle disabled (index POST stores
\* every product enabled): status disabled, nothing sent
C4_Witness ==
    /\ Len(log) >= 1
    /\ ~chk.products[1].enabled
    /\ log[1].kind = "disabled"
    /\ latest_status[chk.products[1].model].status = "disabled"
    /\ ~LoadRaises(file)
    /\ LoadProducts(file) = chk.products

\* C5: round trip across a restart. Stopping and starting the process
\* leaves the items of the store as they were, and the status shown for
\* each of them as the polling loop last wrote it.
C5_RestartRoundTrip ==
    [][(Restart /\ ~LoadRaises(file))
         => /\ ~LoadRaises(file')
            /\ LoadProducts(file') = LoadProducts(file)
            /\ \A i \in 1..Len(LoadProducts(file)) :
                 ShownStatus(latest_status', LoadProducts(file)[i].model)
                   = ShownStatus(latest_status, LoadProducts(file)[i].model)]_vars

\* no product of the list has that model
Unknown(model, products) ==
    \A i \in 1..Len(products) : products[i].model # model

\* C6: delete_product and toggle_product on an identifier no stored item
\* has. When such a request has run alone on a readable store, it was
\* answered without failure and the store holds the list it held before;
\* likewise when it ran right after another request; and after two
\* delete_product calls in a row with one identifier the store holds what
\* it held after the first.
C6_UnknownIdNoChange ==
    (Quiet /\ ~LoadRaises(batch.base)) =>
      /\ (/\ Len(batch.ops) = 1
          /\ batch.ops[1].op \in {"delete", "toggle"}
          /\ Unknown(batch.ops[1].model, LoadProducts(batch.base)))
           => /\ ~batch.failed
              /\ ~LoadRaises(file)
              /\ LoadProducts(file) = LoadProducts(batch.base)
      /\ (/\ Len(batch.ops) = 2
          /\ batch.serial
          /\ batch.ops[2].op \in {"delete", "toggle"}
          /\ \/ Unknown(batch.ops[2].model, LoadProducts(batch.after1))
             \/ batch.ops[1] = batch.ops[2] /\ batch.ops[2].op = "delete")
           => /\ ~batch.failed
              /\ ~LoadRaises(file)
              /\ LoadProducts(file) = LoadProducts(batch.after1)

\* delete_product has run twice in a row for a model the store held, with
\* another product left in the store
C6_Witness ==
    /\ Quiet
    /\ Len(batch.ops) = 2
    /\ batch.serial
    /\ batch.ops[1] = batch.ops[2]
    /\ batch.ops[1].op = "delete"
    /\ ~Unknown(batch.ops[1].model, LoadProducts(batch.base))
    /\ Len(LoadProducts(batch.base)) = 2
    /\ Len(LoadProducts(file)) = 1
    /\ file = batch.after1

\* C7: the requests that write the store are atomic with respect to each
\* other. After two requests (beside each other or one after the other) the
\* store holds the result of the two operations in one of the two orders,
\* and neither request failed.
C7_Serializable ==
    (Quiet /\ Len(batch.ops) = 2 /\ ~LoadRaises(batch.base)) =>
      LET a == batch.ops[1]
          b == batch.ops[2]
          base == LoadProducts(batch.base)
      IN  /\ ~batch.failed
          /\ ~LoadRaises(file)
          /\ LoadProducts(file) \in
               {Edited(b.op, Edited(a.op, base, a.model), b.model),
                Edited(a.op, Edited(b.op, base, b.model), a.model)}

\* C8: consistent snapshot reads. No load_products, of the polling loop or
\* of a handler, reads the file while it is empty, truncated or partly
\* written.
C8_ConsistentReads ==
    [][/\ ChkLoad => ~LoadRaises(file)
       /\ \A h \in Handlers, op \in Mutators \cup {"view"}, model \in Models :
            Request(h, op, model) => ~LoadRaises(file)]_vars

\* C9: identifier uniqueness. No two items of the store have the same model.
C9_UniqueIds ==
    ~LoadRaises(file) =>
      \A i, j \in 1..Len(LoadProducts(file)) :
        i # j => LoadProducts(file)[i].model # LoadProducts(file)[j].model

\* the status the policy of the specification gives to the rows of a probe
PolicyStatus(rows) ==
    IF \E i \in 1..Len(rows) : rows[i].pickupDisplay = "available"
    THEN "available" ELSE "unavailable"

\* C10: status mapping policy. After a probe of an enabled item in which
\* neither fetch_availability nor parse_pickup_status raised, the status
\* recorded is available if a row is available and unavailable otherwise.
C10_StatusPolicy ==
    [][\A fetched \in Fetched :
         (/\ \E posted \in PostOutcomes : ChkItemWith(fetched, posted)
          /\ chk.products[chk.idx].enabled
          /\ ~fetched.raised
          /\ ~ParsePickupStatus(fetched.data).raised)
           => latest_status'[CurModel].status
                = PolicyStatus(ParsePickupStatus(fetched.data).rows)]_vars

\* the pass over the snapshot has ended
PassEnded == chk.pc = "load" /\ Len(log) = Len(chk.products)

\* C11: disabled-status invariant. When a pass has ended, with no request of
\* the control surface since the process started, the status recorded for
\* each product of the snapshot is disabled if and only if the enabled flag
\* of the product was false in the snapshot.
C11_DisabledIff ==
    PassEnded =>
      \A j \in 1..Len(chk.products) :
        (ShownStatus(latest_status, chk.products[j].model) = "disabled")
          <=> ~chk.products[j].enabled

\* C12: a failure of the notifier is not fatal. When the Telegram request of
\* a product raised, send_telegram_message was called once for the product
\* and not again, the body of the product ended without exception and its
\* status is available; the pass goes on with the products after it and
\* the thread does not end.
C12_NotifierNonFatal ==
    /\ chk.pc = "item" => Len(log) = chk.idx - 1
    /\ chk.pc = "load" => Len(log) = Len(chk.products)
    /\ chk.pc # "dead"
    /\ \A j \in Done :
          log[j].post = "failed" =>
            /\ log[j].sent = 1
            /\ log[j].kind = "ok"
            /\ LastOfModel(j) =>
                 latest_status[chk.products[j].model].status = "available"

\* a pass over two products of different models has ended; the Telegram
\* request of the first raised, its status is available, and the second
\* was probed after it
C12_Witness ==
    /\ PassEnded
    /\ Len(log) = 2
    /\ chk.products[1].model # chk.products[2].model
    /\ log[1].post = "failed"
    /\ latest_status[chk.products[1].model].status = "available"
    /\ log[2].kind = "ok"
    /\ log[2].parse = "rows"

\* C13: initial status on add. When index POST has written the store with
\* a new item whose model no item of the list it loaded had, the status
\* shown for the new item is the default 'checking' (the polling loop has
\* not done the item: it can do it only after a later load_products).
C13_InitialStatus ==
    [][\A h \in Handlers :
         (/\ SaveWrite(h)
          /\ hnd[h].op = "add"
          /\ Unknown(hnd[h].model, hnd[h].products)
          /\ ~LoadRaises(file'))
           => ShownStatus(latest_status', hnd[h].model) = "checking"]_vars

\* C14: delete_product beside a pass. When delete_product is called while
\* a pass is in progress, the request is not answered 500 and the thread of
\* the polling loop does not end; a pass that starts when the store holds
\* no item of a model has no item of that model in its snapshot, and a step
\* of a pass changes the status of no other model than the one of the item
\* it is at.
C14_DeleteInPass ==
    [][/\ ChkLoad =>
            /\ chk'.pc # "dead"
            /\ \A m \in Models :
                 (~LoadRaises(file) /\ Unknown(m, LoadProducts(file)))
                   => Unknown(m, chk'.products)
       /\ \A h \in Handlers, m \in Models :
            DeleteInPass(h, m) => hnd'[h].pc # "failed"
       /\ ChkItem =>
            \A m \in DOMAIN latest_status :
                m # CurModel => latest_status'[m] = latest_status[m]]_vars

\* C15: liveness of the polling loop. Under every interleaving with the
\* requests of the control surface the thread of background_checker is in
\* no terminal state: it always has a next step (the next item of the
\* pass, or the load that starts the next pass), which is what probing
\* every enabled item of the store again and again rests on.
C15_LoopLiveness ==
    /\ chk.pc # "dead"
    /\ ENABLED (ChkLoad \/ ChkItem)

\* C16: defensive decoding. For every product done whose provider call
\* returned a response, of whatever shape, parse_pickup_status returned a
\* list of rows and raised nothing to background_checker.
C16_DefensiveDecoding ==
    \A j \in Done :
      (chk.products[j].enabled /\ log[j].parse # "none")
        => log[j].parse = "rows"

\* a step of a request of the control surface in thread h
HandlerStep(h) ==
    \/ \E op \in Mutators \cup {"view"}, model \in Models : Request(h, op, model)
    \/ Respond500(h)
    \/ Render(h)
    \/ SaveOpen(h)
    \/ SaveWrite(h)

\* C17: only the polling loop touches provider, notifier and status. No
\* step of index (GET or POST), delete_product or toggle_product probes the
\* provider or posts to Telegram (the history of probes and posts stays as
\* it is) or changes an entry of latest_status; the status map changes
\* only in a step of background_checker on an item (or is emptied when the
\* process starts again).
C17_OnlyLoopTouchesStatus ==
    [][/\ (\E h \in Handlers : HandlerStep(h))
            => UNCHANGED <<latest_status, log>>
       /\ (latest_status' # latest_status) => (ChkItem \/ Restart)]_vars

\* delete_product has removed the only item of a model after the polling
\* loop recorded the status available for it: the entry is still there
C17_Witness ==
    /\ \A h \in Handlers : hnd[h].pc = "idle"
    /\ file.state = "ok"
    /\ LoadProducts(file) = <<>>
    /\ "m1" \in DOMAIN latest_status
    /\ latest_status["m1"].status = "available"

\* C18: at most one notification per item per pass. For every product done
\* in the pass send_telegram_message was called at most once, however many
\* available rows the provider returned; it was called when the row loop
\* got to an available row without exception, and then the status and the
\* message recorded for the product are those of the first available row.
C18_OneNotificationPerItem ==
    \A j \in Done :
      /\ log[j].sent <= 1
      /\ (log[j].kind = "ok" /\ log[j].avail # <<>>) => log[j].sent = 1
      /\ log[j].sent = 1 =>
           /\ log[j].avail # <<>>
           /\ LastOfModel(j) =>
                latest_status[chk.products[j].model] =
                  [status |-> "available", message |-> Head(log[j].avail)]

\* the provider returned two available rows, of store s1 then of store s2,
\* for the first product of the pass: one call, and the message of s1
C18_Witness ==
    /\ Len(log) >= 1
    /\ log[1].avail = <<"s1", "s2">>
    /\ log[1].sent = 1
    /\ latest_status[chk.products[1].model].message = "s1"

\* C19: the polling loop never writes the durable store. No step of
\* background_checker changes products.json, and the file changes only in
\* the save_products of a request of the control surface; so a pass on a
\* snapshot that the store has moved on from leaves the store as the
\* requests wrote it.
C19_LoopNeverWritesStore ==
    [][/\ (ChkLoad \/ ChkItem) => UNCHANGED file
       /\ (file' # file) => \E h \in Handlers : SaveOpen(h) \/ SaveWrite(h)]_vars

\* a pass is at the second product of a snapshot that is out of date: a
\* request has written a list of one other product since the pass loaded
\* the store, and the store holds what the request wrote
C19_Witness ==
    /\ chk.pc = "item"
    /\ chk.idx = 2
    /\ Len(log) = 1
    /\ \A h \in Handlers : hnd[h].pc = "idle"
    /\ file.state = "ok"
    /\ Len(LoadProducts(file)) = 1
    /\ LoadProducts(file) # SubSeq(chk.products, 1, 1)
    /\ LoadProducts(file) # SubSeq(chk.products, 2, 2)

====
